---- MODULE Spec2Model ----
(***************************************************************************)
(* A model of pyc2ray/c2ray_fstar.py: the C2Ray_fstar simulation class.    *)
(*                                                                         *)
(* Three specifications share the module:                                  *)
(*   SpecHaloes    read_haloes on text catalogs over a wide coordinate     *)
(*                 range (the periodic boundary shift);                    *)
(*   Spec          the source pipeline, _sources_init then ionizing_flux,  *)
(*                 run by every MPI rank on the same inputs;               *)
(*   SpecMaterial  _redshift_init, _material_init, read_density and        *)
(*                 read_clumping on one object.                            *)
(*                                                                         *)
(* Numbers.  Reals are carried as exact integers:                          *)
(*   - lengths in the catalog are integers in a unit in which the box is   *)
(*     boxsize = 2*BoxHalf long;                                           *)
(*   - h = HNum/HDen, and a quantity divided by h is carried as the        *)
(*     integer q*HDen, in units of 1/HNum;                                 *)
(*   - fractions (fstar, fesc) are carried in percent;                     *)
(*   - interpolated coefficients are carried as numerator and denominator. *)
(* A Python exception is an outcome string; it ends the call that raised   *)
(* it and the run of that object.                                          *)
(***************************************************************************)
EXTENDS Integers, Sequences, FiniteSets, TLC

VARIABLES
    halo_file,   \* the catalog file on disk: [ext, rows], rows of [mass, pos]
    haloes,      \* SpecHaloes: what read_haloes returned
    fstar_kind,  \* _ld['Sources']['fstar_kind'], the configured model kind
    zsrc,        \* the redshift z handed to ionizing_flux
    attrs,       \* per rank: the set of attributes _sources_init assigned
    flux,        \* per rank: the call of ionizing_flux and what it produced
    sim,         \* SpecMaterial: the simulation object's material state
    clump        \* SpecMaterial: the last call of read_clumping

vars == <<halo_file, haloes, fstar_kind, zsrc, attrs, flux, sim, clump>>

-----------------------------------------------------------------------------
(* Bounds of the model *)

MaxHalos == 2      \* rows in a catalog file
BoxHalf == 2       \* half the box length, in catalog length units

(* Configuration of the run *)

boxsize == 2 * BoxHalf          \* self.boxsize (Mpc/h)
N == 2                          \* self.N, cells per axis
HNum == 7                       \* h = HNum/HDen = 0.7
HDen == 10
Ob0Om0 == 16                    \* cosmology.Ob0/cosmology.Om0, percent
Nion == 3                       \* _ld['Sources'][...] for the dpl model
f0 == 20
Mt == 10
f0_esc == 50
Mp_esc == 10
alpha_h == 2

Ranks == {0, 1}                 \* MPI ranks running the same program
Axes == 1..3

-----------------------------------------------------------------------------
(* Helpers on sequences *)

RECURSIVE SumSeq(_)
SumSeq(s) == IF s = <<>> THEN 0 ELSE Head(s) + SumSeq(Tail(s))

RECURSIVE Distinct(_)
\* the elements of s in order of first occurrence
Distinct(s) ==
    IF s = <<>> THEN <<>>
    ELSE LET d == Distinct(SubSeq(s, 1, Len(s) - 1))
             x == s[Len(s)]
         IN IF \E i \in DOMAIN d : d[i] = x THEN d ELSE Append(d, x)

-----------------------------------------------------------------------------
(* read_haloes *)

\* division by h: q/h = q*HDen/HNum, carried as q*HDen
DivH(q) == q * HDen

\* the shift of the text branch as two statements in the other order
periodic_shift_swapped(x) ==
    LET y == IF x < 0 THEN boxsize + x ELSE x
    IN IF y > boxsize THEN boxsize - y ELSE y

\* lines 177-178, one coordinate: the two masked assignments in sequence
periodic_shift(x) ==
    LET y == IF x > boxsize THEN boxsize - x ELSE x
    IN IF y < 0 THEN boxsize + y ELSE y

\* The '.hdf5' branch divides by the h stored in the file and the '.dat'
\* branch by self.h; both are taken to equal the configured h = HNum/HDen.
\* np.loadtxt gives a 2-d array only for two rows or more; hl[:,0] on the
\* 1-d array of an empty or one-row file raises IndexError.
read_haloes(file) ==
    LET rows == file.rows IN
    IF file.ext \in {".hdf5", ".dat"} THEN
        [outcome |-> "ok",
         srcpos_mpc |-> [i \in DOMAIN rows |-> [a \in Axes |-> DivH(rows[i].pos[a])]],
         srcmass_msun |-> [i \in DOMAIN rows |-> DivH(rows[i].mass)]]
    ELSE IF file.ext = ".txt" THEN
        IF Len(rows) < 2 THEN
            [outcome |-> "IndexError", srcpos_mpc |-> <<>>, srcmass_msun |-> <<>>]
        ELSE
            [outcome |-> "ok",
             srcpos_mpc |-> [i \in DOMAIN rows |->
                 [a \in Axes |-> DivH(periodic_shift(rows[i].pos[a] + BoxHalf))]],
             srcmass_msun |-> [i \in DOMAIN rows |-> DivH(rows[i].mass)]]
    ELSE
        \* no branch assigned srcpos_mpc: the return statement raises
        [outcome |-> "UnboundLocalError", srcpos_mpc |-> <<>>, srcmass_msun |-> <<>>]

NoHaloes == [outcome |-> "not called", srcpos_mpc |-> <<>>, srcmass_msun |-> <<>>]

-----------------------------------------------------------------------------
(* fstar_model *)

Kinds == {"fgamma", "f_gamma", "mass_independent", "dpl", "mass_dependent",
          "DPL", "schechter"}

\* str.lower on the configured kinds
Lower(kind) == CASE kind = "DPL" -> "dpl" [] OTHER -> kind

\* SourceModel.f_star.deterministic: a double power law around the turnover
\* mass Mt with slopes +1 and -1, f0 / (Mt/M + M/Mt), in percent
f_star(mhalo) == (f0 * mhalo * Mt) \div (Mt * Mt + mhalo * mhalo)

\* SourceModel.f_esc.deterministic: a power law of slope -1 normalised at
\* Mp_esc, f0_esc * Mp_esc / M, in percent
f_esc(mhalo) == (f0_esc * Mp_esc) \div mhalo

\* raised_at names the statement that raised: "return" is line 73
fstar_model(self, kind, mhalo) ==
    IF Lower(kind) \in {"fgamma", "f_gamma", "mass_independent"} THEN
        \* fstar is assigned, fesc is not: return fstar, fesc raises
        [outcome |-> "UnboundLocalError", raised_at |-> "return", printed |-> FALSE,
         fstar |-> Ob0Om0, fesc |-> <<>>]
    ELSE IF Lower(kind) \in {"dpl", "mass_dependent"} THEN
        IF "fstar_dpl" \notin self THEN
            [outcome |-> "AttributeError", raised_at |-> "self.fstar_dpl",
             printed |-> FALSE, fstar |-> <<>>, fesc |-> <<>>]
        ELSE
            [outcome |-> "ok", raised_at |-> "", printed |-> FALSE,
             fstar |-> [i \in DOMAIN mhalo |-> f_star(mhalo[i])],
             fesc |-> [i \in DOMAIN mhalo |-> f_esc(mhalo[i])]]
    ELSE
        \* the message is printed and control falls through to the return
        [outcome |-> "UnboundLocalError", raised_at |-> "return", printed |-> TRUE,
         fstar |-> <<>>, fesc |-> <<>>]

-----------------------------------------------------------------------------
(* Halo2Grid *)

Cells == [Axes -> 0..(N - 1)]

Clamp(c) == IF c < 0 THEN 0 ELSE IF c > N - 1 THEN N - 1 ELSE c

\* the cell of each halo: floor(position / (box_len / n_grid)) per axis
pos_grid(box_len, srcpos_mpc) ==
    [i \in DOMAIN srcpos_mpc |->
        [a \in Axes |-> Clamp((srcpos_mpc[i][a] * N) \div box_len)]]

\* the dense grid of the value summed over the halos of each cell
value_on_grid(grid_pos, value) ==
    [c \in Cells |->
        SumSeq([i \in DOMAIN value |-> IF grid_pos[i] = c THEN value[i] ELSE 0])]

\* the occupied cells in order of first occupation, and the value of each
halo_value_on_grid(grid_pos, binned_value) ==
    LET occupied == Distinct(grid_pos)
    IN [srcpos |-> occupied,
        srcmstar |-> [k \in DOMAIN occupied |-> binned_value[occupied[k]]]]

-----------------------------------------------------------------------------
(* ionizing_flux *)

ZSet == {1, 2}

\* cosmology.H(z) of FlatLambdaCDM(H0 = 70, Om0 = 0.27), km/s/Mpc, rounded
Hubble(z) == <<119, 198, 297>>[z]

\* 1/ts of line 130
InvLifetime(z) == alpha_h * (1 + z) * Hubble(z)

\* the projection that bins the number of halos instead of their mass
GridProjection_counts(srcpos_mpc, mstar_msun) ==
    LET hg_pos == pos_grid(DivH(boxsize), srcpos_mpc)
        ones == [i \in DOMAIN mstar_msun |-> 1]
    IN halo_value_on_grid(hg_pos, value_on_grid(hg_pos, ones))

\* lines 99-105
GridProjection(srcpos_mpc, mstar_msun) ==
    LET hg_pos == pos_grid(DivH(boxsize), srcpos_mpc)
        binned_mstar == value_on_grid(hg_pos, mstar_msun)
    IN halo_value_on_grid(hg_pos, binned_mstar)

NoFlux == [outcome |-> "not called", raised_in |-> "", raised_at |-> "",
           printed |-> FALSE, projected |-> FALSE, ret |-> "",
           mstar_msun |-> <<>>, srcpos |-> <<>>, srcmstar |-> <<>>,
           normflux |-> <<>>, logged |-> 0]

Raise(exc, in, at, printed) ==
    [NoFlux EXCEPT !.outcome = exc, !.raised_in = in, !.raised_at = at,
                   !.printed = printed]

\* ret is "pair" for return srcpos, normflux and "None" when the function
\* ends without reaching a return statement.  save_Mstar keeps its default
\* False: the HDF5 copy of lines 107-125 changes no value.  normflux is
\* carried in units of msun2g / (m_p * S_star_ref).  self.fstar_dpl['Nion']
\* of line 133 is assigned whenever fstar_model returned.
ionizing_flux(rank, self, kind, file, z) ==
    LET hl == read_haloes(file)
        fm == fstar_model(self, kind, hl.srcmass_msun)
        mstar == [i \in DOMAIN hl.srcmass_msun |->
                     fm.fesc[i] * fm.fstar[i] * hl.srcmass_msun[i]]
        gp == GridProjection(hl.srcpos_mpc, mstar)
        normflux == [k \in DOMAIN gp.srcmstar |->
                        Nion * gp.srcmstar[k] * InvLifetime(z)]
        done == [NoFlux EXCEPT !.projected = TRUE, !.mstar_msun = mstar,
                               !.srcpos = gp.srcpos, !.srcmstar = gp.srcmstar]
    IN
    IF hl.outcome # "ok" THEN Raise(hl.outcome, "read_haloes", "", FALSE)
    ELSE IF fm.outcome # "ok"
        THEN Raise(fm.outcome, "fstar_model", fm.raised_at, fm.printed)
    ELSE IF "alph_h" \notin self
        THEN [done EXCEPT !.outcome = "AttributeError",
                          !.raised_in = "ionizing_flux", !.raised_at = "self.alph_h"]
    ELSE IF rank = 0 THEN
        IF gp.srcmstar = <<>>
        \* three lines are logged; srcmstar.min() of the fourth raises
        THEN [done EXCEPT !.outcome = "ValueError",
                          !.raised_in = "ionizing_flux", !.raised_at = "srcmstar.min()",
                          !.logged = 3]
        ELSE [done EXCEPT !.outcome = "returned", !.ret = "pair",
                          !.normflux = normflux, !.logged = 4]
    ELSE
        [done EXCEPT !.outcome = "returned", !.ret = "None"]

-----------------------------------------------------------------------------
(* _sources_init *)

\* the attributes assigned, by name
_sources_init(kind) ==
    {"fstar_kind"} \cup
    (IF kind = "fgamma" THEN {"fgamma_hm", "fgamma_lm"}
     ELSE IF kind = "dpl" THEN {"fstar_dpl", "acc_model", "alph_h"}
     ELSE {})

-----------------------------------------------------------------------------
(* The fields of the simulation state *)

\* An attribute is unset, None, or an array over the grid.  src names where
\* the array comes from, cells holds its values, and clumps lists the
\* clumping coefficients folded into it: 10**(a*x**2 + b*x**2 + c) with
\* x = log(1 + ndens/mean) is not computed, only recorded.
Unset == [kind |-> "unset", src |-> "", cells |-> <<>>, clumps |-> <<>>]
PyNone == [kind |-> "None", src |-> "", cells |-> <<>>, clumps |-> <<>>]
Array(src, cells) == [kind |-> "array", src |-> src, cells |-> cells, clumps |-> <<>>]

Filled(v) == [c \in Cells |-> v]

\* 1 + overdensity of each cell as held by the density file
OnePlusDelta == [c \in Cells |-> 1 + c[1] + c[2] + c[3]]

\* the ionised fraction and ionisation rate held by a prior output, percent
PriorOutput(name) == IF name = "xfrac" THEN Filled(50) ELSE Filled(3)

\* values np.empty may hand back
Garbage == {0, 7}

Temp0s == {1, 2}               \* _ld['Material']['temp0']
xh0 == 1                       \* _ld['Material']['xh0'], percent
avg_dens == 5                  \* _ld['Material']['avg_dens']
zred_0 == 10                   \* the starting redshift of a fresh run

\* redshift_density.txt and redshift_sources.txt
zred_density == <<10, 8, 6>>
zred_sources == <<10, 9, 8, 7, 6>>

\* the redshifts of the outputs a results directory may hold
OutputSets == {{9}, {8}, {9, 8}, {8, 7}, {5}}

\* the extensions get_extension_in_folder may report
Extensions == {".dat", ".npy", ".hdf5", ""}

SetMin(S) == CHOOSE x \in S : \A y \in S : x <= y

\* find_bins: the pairs of neighbouring knots, in table order, that bracket z
find_bins(z, binning) ==
    {<<binning[i], binning[i + 1]>> : i \in
        {j \in 1..(Len(binning) - 1) :
            \/ binning[j] <= z /\ z <= binning[j + 1]
            \/ binning[j + 1] <= z /\ z <= binning[j]}}

\* zred2time: the age of the universe at z, decreasing in z
zred2time(z) == 1000 \div (1 + z)

NewSim(rank, resume, ext, temp0) ==
    [stage |-> "constructed", outcome |-> "", rank |-> rank, resume |-> resume,
     ext |-> ext, temp0 |-> temp0, zred |-> 0 - 1, prev_zdens |-> 0 - 1,
     prev_zsourc |-> 0 - 1, time |-> 0 - 1,
     ndens |-> Unset, xh |-> Unset, phi_ion |-> Unset, temp |-> Unset, logged |-> 0,
     nread |-> 0]

Fail(self, exc) == [self EXCEPT !.stage = "failed", !.outcome = exc]

Log(self, lines) == IF self.rank = 0 THEN self.logged + lines ELSE self.logged

-----------------------------------------------------------------------------
(* _redshift_init *)

\* outs: get_redshifts_from_output; dbin, sbin: what find_bins returned
_redshift_init(self, outs, dbin, sbin) ==
    IF self.resume THEN
        [self EXCEPT !.stage = "redshift",
                     !.zred = SetMin(outs),
                     !.prev_zdens = dbin[2],
                     !.prev_zsourc = sbin[2],
                     !.time = zred2time(SetMin(outs))]
    ELSE
        [self EXCEPT !.stage = "redshift",
                     !.prev_zdens = 0 - 1,
                     !.prev_zsourc = 0 - 1,
                     !.zred = zred_0,
                     !.time = zred2time(zred_0)]

-----------------------------------------------------------------------------
(* read_density *)

\* self.ndens is assigned; the function has no return statement, so the
\* call evaluates to None
read_density(self, z) ==
    [self |-> [self EXCEPT
                  !.ndens = Array("density file",
                      [c \in Cells |-> OnePlusDelta[c] * (1 + z) * (1 + z) * (1 + z)]),
                  !.logged = Log(self, 2),
                  !.nread = @ + 1],
     ret |-> PyNone]

-----------------------------------------------------------------------------
(* _material_init *)

\* garbage: the content of the array np.empty returned
_material_init(self, garbage) ==
    IF self.resume THEN
        LET rd == read_density(self, self.prev_zdens)
            s1 == [rd.self EXCEPT !.ndens = rd.ret]
            s2 == IF self.ext = ".dat" THEN
                      [s1 EXCEPT !.xh = Array("xfrac.dat", PriorOutput("xfrac")),
                                 !.phi_ion = Array("IonRates.dat", PriorOutput("IonRates"))]
                  ELSE IF self.ext = ".npy" THEN
                      [s1 EXCEPT !.xh = Array("xfrac.npy", PriorOutput("xfrac")),
                                 !.phi_ion = Array("IonRates.npy", PriorOutput("IonRates"))]
                  ELSE s1
        IN [s2 EXCEPT !.stage = "material",
                      !.temp = Array("temp0", Filled(self.temp0))]
    ELSE
        [self EXCEPT !.stage = "material",
                     !.ndens = Array("np.empty", Filled(avg_dens * garbage)),
                     !.xh = Array("xh0", Filled(xh0)),
                     !.temp = Array("temp0", Filled(self.temp0)),
                     !.phi_ion = Array("np.zeros", Filled(0))]

-----------------------------------------------------------------------------
(* read_clumping *)

\* the parameter files: rows (a, b, c) indexed by redshift, in either order
ParFiles ==
    {<<[z |-> 6, abc |-> <<1, 2, 3>>], [z |-> 8, abc |-> <<2, 4, 5>>],
       [z |-> 10, abc |-> <<4, 5, 9>>]>>,
     <<[z |-> 10, abc |-> <<4, 5, 9>>], [z |-> 8, abc |-> <<2, 4, 5>>],
       [z |-> 6, abc |-> <<1, 2, 3>>]>>}

ZQueries == 5..11

\* df.index and df.loc[z]
Index(df) == [i \in DOMAIN df |-> df[i].z]
Loc(df, z) == (CHOOSE i \in DOMAIN df : df[i].z = z)
Row(df, z) == df[Loc(df, z)].abc

NoClump == [outcome |-> "not called", df |-> <<>>, z |-> 0, zlow |-> 0, zhigh |-> 0,
            den |-> 0, abc_num |-> <<>>]

\* lines 221-224: w_l = (z-zlow)/(zhigh-zlow), w_h = (zhigh-z)/(zhigh-zlow)
\* and row(zlow)*w_l + row(zhigh)*w_h, over the common denominator
clumping_coefficients(df, z, zlow, zhigh) ==
    [num |-> [k \in 1..3 |->
                 Row(df, zlow)[k] * (z - zlow) + Row(df, zhigh)[k] * (zhigh - z)],
     den |-> zhigh - zlow]

\* bin: what find_bins returned.  The result is the object and the call.
read_clumping(self, df, z, bin) ==
    LET zlow == bin[1]
        zhigh == bin[2]
        co == clumping_coefficients(df, z, zlow, zhigh)
        call == [outcome |-> "returned", df |-> df, z |-> z, zlow |-> zlow, zhigh |-> zhigh,
                 den |-> co.den, abc_num |-> co.num]
    IN IF self.ndens.kind # "array"
       \* self.ndens.mean() on None, or on an attribute never assigned
       THEN [self |-> Fail(self, "AttributeError"),
             call |-> [call EXCEPT !.outcome = "AttributeError"]]
       ELSE [self |-> [self EXCEPT
                          !.ndens.src = "clumped",
                          !.ndens.clumps = Append(@, <<co.num, co.den>>),
                          !.logged = Log(self, 3)],
             call |-> call]

(* SpecMaterial's variables while the other specifications run *)
NoSim == [NewSim(0, FALSE, "", 1) EXCEPT !.stage = "idle"]

-----------------------------------------------------------------------------
(* The catalogs *)

Masses == {1, 2}

\* file positions: the first two share a cell, in the text and in the binary
\* formats; the third lies in another cell and, as text, beyond the box
Positions == {<<0, 0, 0>>, <<1, 1, 1>>, <<0 - BoxHalf, BoxHalf + 1, 0>>}

Halos == [mass : Masses, pos : Positions]

RowsUpTo(n) == UNION {[1..k -> Halos] : k \in 0..n}

CatalogFiles == [ext : {".hdf5", ".dat", ".txt", ".csv"}, rows : RowsUpTo(MaxHalos)]

-----------------------------------------------------------------------------
(* Spec: every rank initialises its sources and reads one source file *)

Init ==
    /\ halo_file \in CatalogFiles
    /\ fstar_kind \in Kinds
    /\ zsrc \in ZSet
    /\ attrs = [r \in Ranks |-> {}]
    /\ flux = [r \in Ranks |-> NoFlux]
    /\ haloes = NoHaloes
    /\ sim = NoSim
    /\ clump = NoClump

SourcesInit(r) ==
    /\ attrs[r] = {}
    /\ attrs' = [attrs EXCEPT ![r] = _sources_init(fstar_kind)]
    /\ UNCHANGED <<halo_file, haloes, fstar_kind, zsrc, flux, sim, clump>>

IonizingFlux(r) ==
    /\ attrs[r] # {}
    /\ flux[r].outcome = "not called"
    /\ flux' = [flux EXCEPT ![r] =
                   ionizing_flux(r, attrs[r], fstar_kind, halo_file, zsrc)]
    /\ UNCHANGED <<halo_file, haloes, fstar_kind, zsrc, attrs, sim, clump>>

Next ==
    \/ \E r \in Ranks : SourcesInit(r)
    \/ \E r \in Ranks : IonizingFlux(r)

Spec == Init /\ [][Next]_vars

-----------------------------------------------------------------------------
(* SpecHaloes: read_haloes on two-row text catalogs whose first halo takes  *)
(* every position within one box length of the box on two axes              *)

WideCoords == (1 - 3 * BoxHalf)..(3 * BoxHalf - 1)

TextCatalogs ==
    {[ext |-> ".txt",
      rows |-> <<[mass |-> 1, pos |-> <<x, y, 0>>], [mass |-> 2, pos |-> <<0, 0, 0>>]>>] :
        x \in WideCoords, y \in WideCoords}

InitHaloes ==
    /\ halo_file \in TextCatalogs
    /\ haloes = NoHaloes
    /\ fstar_kind = "dpl"
    /\ zsrc = 1
    /\ attrs = [r \in Ranks |-> {}]
    /\ flux = [r \in Ranks |-> NoFlux]
    /\ sim = NoSim
    /\ clump = NoClump

ReadHaloes ==
    /\ haloes.outcome = "not called"
    /\ haloes' = read_haloes(halo_file)
    /\ UNCHANGED <<halo_file, fstar_kind, zsrc, attrs, flux, sim, clump>>

NextHaloes == ReadHaloes

SpecHaloes == InitHaloes /\ [][NextHaloes]_vars

-----------------------------------------------------------------------------
(* SpecMaterial: one object is constructed, fresh or resuming, and then     *)
(* reads a density file and a clumping table                                *)

MaxClumpings == 1       \* calls of read_clumping on one density field
MaxDensityReads == 2    \* calls of read_density on one object

InitMaterial ==
    /\ sim \in {NewSim(rank, resume, ext, temp0) :
                   rank \in Ranks, resume \in BOOLEAN, ext \in Extensions,
                   temp0 \in Temp0s}
    /\ clump = NoClump
    /\ halo_file = [ext |-> ".txt", rows |-> <<>>]
    /\ haloes = NoHaloes
    /\ fstar_kind = "dpl"
    /\ zsrc = 1
    /\ attrs = [r \in Ranks |-> {}]
    /\ flux = [r \in Ranks |-> NoFlux]

Others == <<halo_file, haloes, fstar_kind, zsrc, attrs, flux>>

RedshiftInit ==
    /\ sim.stage = "constructed"
    /\ \/ /\ ~sim.resume
          /\ sim' = _redshift_init(sim, {}, <<>>, <<>>)
       \/ /\ sim.resume
          /\ \E outs \in OutputSets :
                LET dbins == find_bins(SetMin(outs), zred_density)
                    sbins == find_bins(SetMin(outs), zred_sources)
                IN IF dbins = {} \/ sbins = {}
                   THEN sim' = Fail(sim, "OutOfRange")
                   ELSE \E dbin \in dbins, sbin \in sbins :
                            sim' = _redshift_init(sim, outs, dbin, sbin)
    /\ UNCHANGED <<clump, Others>>

MaterialInit ==
    /\ sim.stage = "redshift"
    /\ \E garbage \in Garbage : sim' = _material_init(sim, garbage)
    /\ UNCHANGED <<clump, Others>>

ReadDensity ==
    /\ sim.stage = "material"
    /\ sim.nread < MaxDensityReads
    /\ \E i \in DOMAIN zred_density : sim' = read_density(sim, zred_density[i]).self
    /\ UNCHANGED <<clump, Others>>

ReadClumping ==
    /\ sim.stage = "material"
    /\ Len(sim.ndens.clumps) < MaxClumpings
    /\ \E df \in ParFiles, z \in ZQueries :
          LET bins == find_bins(z, Index(df))
          IN IF bins = {}
             THEN /\ sim' = Fail(sim, "OutOfRange")
                  /\ clump' = [NoClump EXCEPT !.outcome = "OutOfRange", !.df = df, !.z = z]
             ELSE \E bin \in bins :
                      /\ sim' = read_clumping(sim, df, z, bin).self
                      /\ clump' = read_clumping(sim, df, z, bin).call
    /\ UNCHANGED Others

NextMaterial ==
    \/ RedshiftInit
    \/ MaterialInit
    \/ ReadDensity
    \/ ReadClumping

SpecMaterial == InitMaterial /\ [][NextMaterial]_vars

-----------------------------------------------------------------------------
(* Properties of the source pipeline *)

Called(r) == flux[r].outcome # "not called"

AcceptedKinds == {"fgamma", "f_gamma", "mass_independent", "dpl", "mass_dependent"}

NoDuplicates(s) == \A i, j \in DOMAIN s : s[i] = s[j] => i = j

C2_RankIndependent ==
    \A r \in Ranks :
        (flux[0].outcome = "returned" /\ Called(r)) =>
            /\ flux[r].outcome = "returned"
            /\ flux[r].ret = flux[0].ret
            /\ flux[r].srcpos = flux[0].srcpos
            /\ flux[r].normflux = flux[0].normflux

\* C3: with fstar_kind 'fgamma' and a text catalog of two halos of one cell,
\* ionizing_flux returns one occupied cell holding the sum of the two
\* stellar masses and one nonzero flux entry.
C3_FgammaEndToEnd ==
    ( /\ fstar_kind = "fgamma"
      /\ halo_file.ext = ".txt"
      /\ Len(halo_file.rows) = 2
      /\ halo_file.rows[1].pos = halo_file.rows[2].pos
      /\ Called(0) ) =>
        /\ flux[0].outcome = "returned"
        /\ flux[0].ret = "pair"
        /\ Len(flux[0].srcpos) = 1
        /\ Len(flux[0].mstar_msun) = 2
        /\ flux[0].srcmstar = <<flux[0].mstar_msun[1] + flux[0].mstar_msun[2]>>
        /\ Len(flux[0].normflux) = 1
        /\ flux[0].normflux[1] # 0

\* C4: with a kind that is none of the five accepted ones, fstar_model ends
\* in an unimplemented-model error raised in the else branch, not at the
\* return statement, and no stellar mass is computed.
C4_UnknownKindRejected ==
    \A r \in Ranks :
        ( /\ Lower(fstar_kind) \notin AcceptedKinds
          /\ Called(r)
          /\ flux[r].raised_in # "read_haloes" ) =>
            /\ flux[r].outcome = "UnimplementedModel"
            /\ flux[r].raised_at # "return"
            /\ ~flux[r].projected

\* C6: when the catalog holds no halo, ionizing_flux on rank 0 returns an
\* empty srcpos and an empty normflux.
C6_EmptyCatalogReturns ==
    ( /\ halo_file.rows = <<>>
      /\ halo_file.ext \in {".hdf5", ".dat"}
      /\ fstar_kind = "dpl"
      /\ Called(0) ) =>
        /\ flux[0].outcome = "returned"
        /\ flux[0].ret = "pair"
        /\ flux[0].srcpos = <<>>
        /\ flux[0].normflux = <<>>

\* C9: after _sources_init with a kind fstar_model accepts, fstar_dpl and
\* alph_h are assigned, and ionizing_flux reads no unassigned attribute.
C9_AcceptedKindsInitialised ==
    \A r \in Ranks :
        (Lower(fstar_kind) \in AcceptedKinds /\ attrs[r] # {}) =>
            /\ {"fstar_dpl", "alph_h"} \subseteq attrs[r]
            /\ flux[r].outcome # "AttributeError"

-----------------------------------------------------------------------------
(* Properties of read_haloes *)

\* the coordinate of halo i on axis a after the shift by half the box
Shifted(i, a) == halo_file.rows[i].pos[a] + BoxHalf

\* C5: in the text branch a shifted coordinate boxsize + delta ends at
\* boxsize - delta, and a shifted coordinate -delta ends at boxsize - delta,
\* for 0 < delta < boxsize (the result divided by h afterwards).
C5_WrapAmended ==
    haloes.outcome = "ok" =>
        \A i \in DOMAIN haloes.srcpos_mpc : \A a \in Axes :
            \A delta \in 1..(boxsize - 1) :
                /\ Shifted(i, a) = boxsize + delta =>
                        haloes.srcpos_mpc[i][a] = DivH(boxsize - delta)
                /\ Shifted(i, a) = 0 - delta =>
                        haloes.srcpos_mpc[i][a] = DivH(boxsize - delta)

\* a catalog with a coordinate above the box and one below it has been read
C5_Witness ==
    /\ haloes.outcome = "ok"
    /\ \E i \in DOMAIN haloes.srcpos_mpc : \E a \in Axes : Shifted(i, a) > boxsize
    /\ \E i \in DOMAIN haloes.srcpos_mpc : \E a \in Axes : Shifted(i, a) < 0

\* C5 as stated: boxsize + delta ends at boxsize - delta, and -delta ends at
\* boxsize + delta.
C5_WrapAsStated ==
    haloes.outcome = "ok" =>
        \A i \in DOMAIN haloes.srcpos_mpc : \A a \in Axes :
            \A delta \in 1..(boxsize - 1) :
                /\ Shifted(i, a) = boxsize + delta =>
                        haloes.srcpos_mpc[i][a] = DivH(boxsize - delta)
                /\ Shifted(i, a) = 0 - delta =>
                        haloes.srcpos_mpc[i][a] = DivH(boxsize + delta)

-----------------------------------------------------------------------------
(* Properties of the material state *)

IsArray(field) == field.kind = "array"

\* C7: on resume from a '.dat' or '.npy' output, once _material_init has
\* completed, ndens, xh and phi_ion each hold an array over the grid and
\* temp is temp0 in every cell.
C7_ResumeReconstructsState ==
    ( /\ sim.stage = "material"
      /\ sim.resume
      /\ sim.ext \in {".dat", ".npy"} ) =>
        /\ IsArray(sim.ndens)
        /\ IsArray(sim.xh)
        /\ IsArray(sim.phi_ion)
        /\ IsArray(sim.temp)
        /\ \A c \in Cells : sim.temp.cells[c] = sim.temp0

\* C8: on resume, when the extension found is neither '.dat' nor '.npy',
\* _material_init does not complete: the object is failed with
\* MissingResumeState and never reaches the material stage with xh and
\* phi_ion unassigned.
C8_MissingResumeStateIsFatal ==
    ( /\ sim.resume
      /\ sim.ext \notin {".dat", ".npy"}
      /\ sim.stage \notin {"constructed", "redshift"}
      /\ sim.outcome # "OutOfRange" ) =>
        /\ sim.stage = "failed"
        /\ sim.outcome = "MissingResumeState"

\* a, b and c were computed by the last call of read_clumping
Interpolated == clump.outcome \in {"returned", "AttributeError"}

\* C10: when read_clumping is given a query equal to a knot of its
\* bracketing pair (zlow # zhigh), the coefficients a, b, c are the table
\* row of that knot.
C10_KnotsReproduced ==
    (Interpolated /\ clump.zlow # clump.zhigh) =>
        /\ clump.z = clump.zlow =>
               \A k \in 1..3 :
                   clump.abc_num[k] = Row(clump.df, clump.zlow)[k] * clump.den
        /\ clump.z = clump.zhigh =>
               \A k \in 1..3 :
                   clump.abc_num[k] = Row(clump.df, clump.zhigh)[k] * clump.den

====
